---- MODULE Spec2Model ----
(***************************************************************************)
(* Model of the rust-nssm service host (src/src/service_host.rs): one run  *)
(* of `run <name>` after the configuration has been loaded.  Two threads   *)
(* share the stop flag: the main thread (ffi_service_main in service mode, *)
(* run_debug_mode in debug mode) and the supervision thread                *)
(* (manage_child_process).  The platform delivers control codes to the     *)
(* registered control handler, the user delivers Ctrl+C in debug mode, and *)
(* child processes exit on their own.                                      *)
(***************************************************************************)
EXTENDS Integers, Sequences, FiniteSets, TLC

\* ---------------------------------------------------------------- bounds
\* Total number of start_child_process_once calls explored in one run.
MaxSpawns == 6

\* ------------------------------------------------------ program constants
MAX_ATTEMPTS == 5
INITIAL_DELAY == 2
BACKOFF_CAP_EXP == 8
COOLDOWN_SECS == 1
POLL_SECS == 1

\* Control codes the platform can hand to the handler: the three the handler
\* names and two representatives of the `_` arm.
Controls == {"Stop", "Shutdown", "Interrogate", "Pause", "Continue"}

VARIABLES
    mode,             \* "service" | "debug" (RUST_NSSM_DEBUG == "1")
    mainPc,           \* position of the main thread
    runResult,        \* what run_service returned: "Ok" | "Err", "none" while
                      \* running or when the dispatcher's answer is not
                      \* decided by this program (ffi_service_main gave up)
    registered,       \* control handler / Ctrl+C handler installed
    stop_requested,   \* the shared Arc<Mutex<bool>>
    reports,          \* set_service_status calls: <<ServiceStatus(..)>>
    supPc,            \* position of the supervision thread
    attempt,          \* manage_child_process: attempt
    child,            \* process behind the `child` handle: none|running|exited
    orphans,          \* live children whose handle has been dropped
    spawnCalls,       \* history: number of start_child_process_once calls
    failRun,          \* history: spawn failures since the last success
    delays,           \* history: backoff sleeps since the last success
    pause,            \* history: sleeps since the last attempt ended
    spawnsAfterStop,  \* history: spawn calls begun with the flag set
    stopWhileRunning, \* history: the flag was first set with a child alive
    lastControl,      \* history: last control code handled
    lastResult,       \* history: what the handler returned for it
    lastSpawn,        \* history: how the last start_child_process_once ended
    stopWait,         \* history: seconds the supervisor slept with the flag set
    lastWait,         \* history: how the supervisor's child.wait() ended
    scm,              \* names registered with the service control manager
    params,           \* registry: name -> the Parameters key, <<>> if absent
    loaded,           \* what load_service_config returned, <<>> before it
    lastOp,           \* history: last command and what it returned
    saved,            \* history: the last save: config, result, key existed
    argv,             \* the options of the install command line
    host,             \* ServiceHost: the fields that decide a spawn
    child_process,    \* ServiceHost: Arc<RwLock<Option<Child>>>, a child id
    lockOwner,        \* the task holding child_process's write lock
    hostPc,           \* the caller of start_service and stop_service
    startPc,          \* position of the task of start_child_process
    monPc,            \* position of the task of start_monitor_task
    stopPc,           \* position of the task of stop_child_process
    procs,            \* the children spawned by the host, by id
    new_child,        \* start task: the `child` it spawned
    taken,            \* stop task: the `child` it took from the handle
    stopAfterStore,   \* history: the start task had ended at stop_service
    monSpawnCalls,    \* history: number of cmd.spawn() calls of the monitor
    wstr,             \* the &str handed to to_wstring (code points)
    wide,             \* the Vec<u16> to_wstring returned, <<>> before it
    wlen              \* what wcslen returned for it, <<>> before it

vars == <<mode, mainPc, runResult, registered, stop_requested, reports,
          supPc, attempt, child, orphans, spawnCalls, failRun, delays, pause,
          spawnsAfterStop, stopWhileRunning, lastControl, lastResult,
          lastSpawn, stopWait, lastWait, scm, params, loaded, lastOp, saved, argv,
          host, child_process, lockOwner, hostPc, startPc, monPc, stopPc,
          procs, new_child, taken, stopAfterStore, monSpawnCalls,
          wstr, wide, wlen>>

mainVars == <<mode, mainPc, runResult, reports, loaded>>
supVars == <<supPc, attempt, child, orphans, spawnCalls, failRun, delays,
             pause, spawnsAfterStop, lastSpawn, stopWait, lastWait>>
ctlVars == <<lastControl, lastResult>>
taskVars == <<host, child_process, lockOwner, hostPc, startPc, monPc, stopPc,
              procs, new_child, taken, stopAfterStore, monSpawnCalls>>
wideVars == <<wstr, wide, wlen>>
storeVars == <<scm, params, lastOp, saved, argv, taskVars, wideVars>>

\* ---------------------------------------------------------------- helpers
Min(a, b) == IF a < b THEN a ELSE b

RECURSIVE Pow2(_)
Pow2(n) == IF n = 0 THEN 1 ELSE 2 * Pow2(n - 1)

AliveCount == orphans + (IF child = "running" THEN 1 ELSE 0)

SupRunning == supPc \notin {"not_started", "done_stop", "done_killed",
                            "done_gaveup", "terminated"}

\* Variant: the bound compared with `>`.
give_up_strict(a) == a > MAX_ATTEMPTS

\* `attempt >= MAX_ATTEMPTS`
give_up(a) == a >= MAX_ATTEMPTS

\* Variant: a delay growing linearly with the counter.
backoff_delay_linear(a) == INITIAL_DELAY * 2 * a

\* Variant: the delay taken from the counter before its increment.
backoff_delay_before_increment(a) ==
    INITIAL_DELAY * Pow2(Min(a - 1, BACKOFF_CAP_EXP))

\* `INITIAL_DELAY * u64::pow(2, attempt.min(8))`: at most 2 * 2^8, far
\* below the width of u64.
backoff_delay(a) == INITIAL_DELAY * Pow2(Min(a, BACKOFF_CAP_EXP))

\* Variant: Interrogate writes false into the flag.
service_control_handler_clearing(control, stop) ==
    CASE control = "Stop"        -> <<"NoError", TRUE>>
      [] control = "Interrogate" -> <<"NoError", FALSE>>
      [] control = "Shutdown"    -> <<"NoError", TRUE>>
      [] OTHER                   -> <<"NotImplemented", stop>>

\* Variant: no arm for Shutdown.
service_control_handler_no_shutdown(control, stop) ==
    CASE control = "Stop"        -> <<"NoError", TRUE>>
      [] control = "Interrogate" -> <<"NoError", stop>>
      [] OTHER                   -> <<"NotImplemented", stop>>

\* The closure registered as the control handler: <<result, new flag>>.
service_control_handler(control, stop) ==
    CASE control = "Stop"        -> <<"NoError", TRUE>>
      [] control = "Interrogate" -> <<"NoError", stop>>
      [] control = "Shutdown"    -> <<"NoError", TRUE>>
      [] OTHER                   -> <<"NotImplemented", stop>>

\* One set_service_status call: the ServiceStatus handed to the platform
\* (its current_state and controls_accepted) and whether the call returned
\* Ok.
ServiceStatus(current_state, controls_accepted, ok) ==
    [state |-> current_state, controls_accepted |-> controls_accepted,
     ok |-> ok]

\* ------------------------------------------------------------ data model
\* A String is a sequence of Unicode scalar values, a wide string a
\* sequence of UTF-16 code units (97 = a, 34 = ", 92 = \, 91 = [, 93 = ],
\* 44 = ,, 0 = NUL); below 65536 the two agree.  Option<T>: None is <<>>,
\* Some(x) is <<x>>.
None == <<>>
Some(x) == <<x>>
IsSome(o) == Len(o) = 1

\* The service name the commands and the host run are given.
Names == {"svcA"}
RunName == "svcA"

\* Executable paths: two files that exist and one that does not.
ExeA == <<97>>
ExeB == <<98>>
ExeGone == <<103>>
OnDisk == {ExeA, ExeB}

\* Variant: every path is taken to exist.
exists_always(path) == TRUE

\* Path::exists
exists(path) == path \in OnDisk

\* The values of a Parameters key.
ValueNames == {"WorkingDirectory", "StdoutPath", "StderrPath",
               "TargetExecutable", "Arguments"}
EmptyKey == [v \in ValueNames |-> None]

\* str::encode_utf16: a &str is a sequence of Unicode scalar values; one
\* below 65536 is one code unit, any other a surrogate pair.
RECURSIVE encode_utf16(_)
encode_utf16(str) ==
    IF str = <<>> THEN <<>>
    ELSE (IF str[1] < 65536
             THEN <<str[1]>>
             ELSE <<55296 + ((str[1] - 65536) \div 1024),
                    56320 + ((str[1] - 65536) % 1024)>>)
         \o encode_utf16(Tail(str))

\* Variant: two terminating zeros.
to_wstring_twice_terminated(str) == encode_utf16(str) \o <<0, 0>>

\* to_wstring: the code units of the string followed by one 0.
to_wstring(str) == encode_utf16(str) \o <<0>>

\* wcslen: the number of code units before the first 0 of a buffer that
\* holds one (`len` counts up from 0 while the unit at offset len is not 0).
RECURSIVE wcslen_from(_, _)
wcslen_from(buffer, len) ==
    IF buffer[len + 1] = 0 THEN len ELSE wcslen_from(buffer, len + 1)

wcslen(buffer) == wcslen_from(buffer, 0)

\* str::len: the length in bytes of the UTF-8 text.
RECURSIVE str_len(_)
str_len(str) ==
    IF str = <<>> THEN 0
    ELSE (IF str[1] < 128 THEN 1
          ELSE IF str[1] < 2048 THEN 2
          ELSE IF str[1] < 65536 THEN 3
          ELSE 4)
         + str_len(Tail(str))

\* to_string_lossy: an unpaired surrogate becomes U+FFFD.  (The strings of
\* this model are too short to hold a surrogate pair.)
to_string_lossy(path) ==
    [i \in DOMAIN path |->
        IF path[i] >= 55296 /\ path[i] <= 57343 THEN 65533 ELSE path[i]]

\* read_reg_string: the value's data cut at the first 0; None when the value
\* cannot be queried.
read_reg_string(key, name) ==
    IF key[name] = None THEN None
    ELSE LET buffer == key[name][1]
             nul == {i \in DOMAIN buffer : buffer[i] = 0}
             null_pos == CHOOSE i \in nul : \A j \in nul : i <= j
         IN  Some(IF nul = {} THEN buffer
                              ELSE SubSeq(buffer, 1, null_pos - 1))

\* serde_json::to_string of one String: quotes around the text, `"` and `\`
\* escaped with a backslash.
RECURSIVE json_escape(_)
json_escape(str) ==
    IF str = <<>> THEN <<>>
    ELSE (IF str[1] \in {34, 92} THEN <<92, str[1]>> ELSE <<str[1]>>)
         \o json_escape(Tail(str))

RECURSIVE json_elements(_)
json_elements(args) ==
    IF args = <<>> THEN <<>>
    ELSE <<34>> \o json_escape(args[1]) \o <<34>>
         \o (IF Len(args) > 1 THEN <<44>> ELSE <<>>)
         \o json_elements(Tail(args))

\* serde_json::to_string(&Vec<String>)
to_json(args) == <<91>> \o json_elements(args) \o <<93>>

\* serde_json::from_str::<Vec<String>>, for texts without white space: the
\* body of a string from position i on; [ok, str, next].
RECURSIVE parse_string(_, _, _)
parse_string(text, i, acc) ==
    IF i > Len(text) THEN [ok |-> FALSE, str |-> acc, next |-> i]
    ELSE IF text[i] = 34 THEN [ok |-> TRUE, str |-> acc, next |-> i + 1]
    ELSE IF text[i] = 92
         THEN IF i + 1 <= Len(text) /\ text[i + 1] \in {34, 92, 47}
                 THEN parse_string(text, i + 2, Append(acc, text[i + 1]))
                 ELSE [ok |-> FALSE, str |-> acc, next |-> i]
    ELSE IF text[i] < 32 THEN [ok |-> FALSE, str |-> acc, next |-> i]
    ELSE parse_string(text, i + 1, Append(acc, text[i]))

\* The elements of an array from position i on; None on a syntax error.
RECURSIVE parse_elements(_, _, _)
parse_elements(text, i, acc) ==
    IF i > Len(text) \/ text[i] # 34 THEN None
    ELSE LET r == parse_string(text, i + 1, <<>>) IN
         IF ~r.ok \/ r.next > Len(text) THEN None
         ELSE IF text[r.next] = 44
              THEN parse_elements(text, r.next + 1, Append(acc, r.str))
         ELSE IF text[r.next] = 93 /\ r.next = Len(text)
              THEN Some(Append(acc, r.str))
         ELSE None

from_json(text) ==
    IF Len(text) < 2 \/ text[1] # 91 THEN None
    ELSE IF text = <<91, 93>> THEN Some(<<>>)
    ELSE parse_elements(text, 2, <<>>)

\* One RegSetValueExW(REG_SZ) of save_reg_string.
save_reg_string(key, name, value) ==
    [key EXCEPT ![name] = Some(to_wstring(value))]

\* The values save_service_config writes, in its order; a field it skips is
\* None.
config_writes(config) ==
    << [name |-> "WorkingDirectory",
        value |-> IF IsSome(config.working_directory)
                     THEN Some(to_string_lossy(config.working_directory[1]))
                     ELSE None],
       [name |-> "StdoutPath",
        value |-> IF IsSome(config.stdout_path)
                     THEN Some(to_string_lossy(config.stdout_path[1]))
                     ELSE None],
       [name |-> "StderrPath",
        value |-> IF IsSome(config.stderr_path)
                     THEN Some(to_string_lossy(config.stderr_path[1]))
                     ELSE None],
       [name |-> "TargetExecutable",
        value |-> Some(to_string_lossy(config.executable_path))],
       [name |-> "Arguments",
        value |-> IF config.arguments # <<>>
                     THEN Some(to_json(config.arguments))
                     ELSE None] >>

\* The writes from the i-th on; the first one that fails (`fault` names its
\* value) returns the error and leaves the rest unwritten.
RECURSIVE apply_writes(_, _, _, _)
apply_writes(key, writes, i, fault) ==
    IF i > Len(writes) THEN [ok |-> TRUE, key |-> Some(key)]
    ELSE IF writes[i].value = None
         THEN apply_writes(key, writes, i + 1, fault)
    ELSE IF fault = writes[i].name THEN [ok |-> FALSE, key |-> Some(key)]
    ELSE apply_writes(save_reg_string(key, writes[i].name, writes[i].value[1]),
                      writes, i + 1, fault)

\* ServiceManager::save_service_config on the Parameters key `key0` (None
\* when there is none yet): RegCreateKeyExW opens or creates the key, then
\* the values are written.  [ok, key].
save_service_config(key0, config, fault) ==
    IF fault = "CreateKey" THEN [ok |-> FALSE, key |-> key0]
    ELSE apply_writes(IF IsSome(key0) THEN key0[1] ELSE EmptyKey,
                      config_writes(config), 1, fault)

SaveFaults == {"none", "CreateKey"} \cup ValueNames

\* A fault can only hit a call that is made.
FaultApplies(config, fault) ==
    \/ fault \in {"none", "CreateKey"}
    \/ \E i \in 1..5 : /\ config_writes(config)[i].name = fault
                       /\ config_writes(config)[i].value # None

\* load_service_config: the service is looked up in the service control
\* manager first (an error when that fails); then the Parameters key is read,
\* every value that cannot be read keeping its default.
load_service_config(name, scmFault) ==
    LET Default == [ok |-> TRUE, executable_path |-> <<>>,
                    arguments |-> <<>>, working_directory |-> None,
                    stdout_path |-> None, stderr_path |-> None]
        Str(key, v) == read_reg_string(key, v)
    IN  IF scmFault \/ name \notin scm THEN [Default EXCEPT !.ok = FALSE]
        ELSE IF params[name] = None THEN Default
        ELSE LET key == params[name][1]
                 args == IF Str(key, "Arguments") = None THEN None
                         ELSE from_json(Str(key, "Arguments")[1])
             IN  [ok |-> TRUE,
                  executable_path |->
                      IF IsSome(Str(key, "TargetExecutable"))
                         THEN Str(key, "TargetExecutable")[1] ELSE <<>>,
                  arguments |-> IF IsSome(args) THEN args[1] ELSE <<>>,
                  working_directory |-> Str(key, "WorkingDirectory"),
                  stdout_path |-> Str(key, "StdoutPath"),
                  stderr_path |-> Str(key, "StderrPath")]

\* start_child_process_once: a configured redirect file that cannot be
\* opened, or a failing spawn, returns Err (`fault` names what fails).
start_child_process_once(stdout_path, stderr_path, fault) ==
    IF fault = "stdout" /\ IsSome(stdout_path) THEN "Err"
    ELSE IF fault = "stderr" /\ IsSome(stderr_path) THEN "Err"
    ELSE IF fault = "spawn" THEN "Err"
    ELSE "Ok"

SpawnFaults == {"none", "stdout", "stderr", "spawn"}

\* ------------------------------------------------------------------- Init
\* The install command line: the positional name and executable and the
\* --name and --executable flags, each an Option.
Argv(service_name, name, service_executable, executable) ==
    [service_name |-> service_name, name |-> name,
     service_executable |-> service_executable, executable |-> executable]

NoArgv == Argv(None, None, None, None)

\* A ServiceConfig, as far as it is saved and loaded.
ServiceConfig(exe, args, wd, out, err) ==
    [executable_path |-> exe, arguments |-> args, working_directory |-> wd,
     stdout_path |-> out, stderr_path |-> err]

NoOp == [op |-> "none", res |-> "none", failed |-> "none", calls |-> <<>>]

\* The stores a host run can find: the service unknown to the service
\* control manager; known but without a Parameters key; a key without
\* TargetExecutable; saved records whose executable is missing, present,
\* and present with both streams redirected; and a saved record whose
\* Arguments value was since overwritten in the registry with text that is
\* not an array of strings.
RunConfigs ==
    { ServiceConfig(ExeGone, <<>>, None, None, None),
      ServiceConfig(ExeA, <<>>, None, None, None),
      ServiceConfig(ExeA, <<>>, None, Some(<<111>>), Some(<<101>>)) }

RunStores ==
    { [scm |-> {}, key |-> None],
      [scm |-> Names, key |-> None],
      [scm |-> Names,
       key |-> Some(save_reg_string(EmptyKey, "WorkingDirectory", <<119>>))] }
    \cup { [scm |-> Names, key |-> save_service_config(None, c, "none").key] :
             c \in RunConfigs }
    \cup { [scm |-> Names,
            key |-> Some(save_reg_string(
                      save_service_config(
                          None,
                          ServiceConfig(ExeB, << <<97>> >>, None, None, None),
                          "none").key[1],
                      "Arguments", <<91, 34, 97>>))] }

\* ServiceHost::new: no child, nothing requested; no task exists yet.
NoRedirect == [stdout_path |-> None, stderr_path |-> None]

TaskIdle ==
    /\ host = NoRedirect
    /\ child_process = None
    /\ lockOwner = "none"
    /\ hostPc = "new"
    /\ startPc = "idle"
    /\ monPc = "idle"
    /\ stopPc = "idle"
    /\ procs = <<>>
    /\ new_child = None
    /\ taken = None
    /\ stopAfterStore = FALSE
    /\ monSpawnCalls = 0

\* No string has been converted yet.
WideIdle ==
    /\ wstr = <<>>
    /\ wide = None
    /\ wlen = None

\* The state of the host before run_service.
HostInit ==
    /\ mainPc = "select_mode"
    /\ runResult = "none"
    /\ registered = FALSE
    /\ stop_requested = FALSE
    /\ reports = <<>>
    /\ supPc = "not_started"
    /\ attempt = 0
    /\ child = "none"
    /\ orphans = 0
    /\ spawnCalls = 0
    /\ failRun = 0
    /\ delays = <<>>
    /\ pause = <<>>
    /\ spawnsAfterStop = 0
    /\ stopWhileRunning = FALSE
    /\ lastControl = "none"
    /\ lastResult = "none"
    /\ lastSpawn = "none"
    /\ stopWait = 0
    /\ lastWait = "none"
    /\ loaded = None

Init ==
    /\ mode \in {"service", "debug"}
    /\ HostInit
    /\ \E st \in RunStores :
          /\ scm = st.scm
          /\ params = [n \in Names |-> st.key]
    /\ lastOp = NoOp
    /\ saved = None
    /\ argv = NoArgv
    /\ TaskIdle
    /\ WideIdle

\* ------------------------------------------------------------ main thread
\* run_service: the configuration is loaded (an error returns), the
\* executable must exist (else an error returns), then the environment
\* toggle picks the mode.
run_service ==
    /\ mainPc = "select_mode"
    /\ \E scmFault \in BOOLEAN :
          LET config == load_service_config(RunName, scmFault) IN
          /\ loaded' = Some(config)
          /\ IF ~config.ok \/ ~exists(config.executable_path)
                THEN mainPc' = "returned" /\ runResult' = "Err"
                ELSE /\ mainPc' = IF mode = "debug" THEN "set_handler"
                                                    ELSE "dispatch"
                     /\ runResult' = runResult
    /\ UNCHANGED <<mode, reports, registered, stop_requested,
                   stopWhileRunning>>
    /\ UNCHANGED <<supVars, ctlVars>>
    /\ UNCHANGED storeVars

\* run_windows_service: service_dispatcher::start either calls back into
\* ffi_service_main or fails.
run_windows_service ==
    /\ mainPc = "dispatch"
    /\ \E ok \in BOOLEAN :
          IF ok THEN mainPc' = "register" /\ runResult' = runResult
                ELSE mainPc' = "returned" /\ runResult' = "Err"
    /\ UNCHANGED <<mode, loaded, reports, registered, stop_requested, stopWhileRunning>>
    /\ UNCHANGED <<supVars, ctlVars>>
    /\ UNCHANGED storeVars

\* Variant: the thread is started right after the registration, without the
\* Running report.
register_handler_skipping_running ==
    /\ mainPc = "register"
    /\ \E ok \in BOOLEAN :
          IF ok THEN mainPc' = "spawn_thread" /\ registered' = TRUE
                     /\ runResult' = runResult
                ELSE mainPc' = "returned" /\ registered' = registered
                     /\ runResult' = runResult
    /\ UNCHANGED <<mode, loaded, reports, stop_requested, stopWhileRunning>>
    /\ UNCHANGED <<supVars, ctlVars>>
    /\ UNCHANGED storeVars

\* ffi_service_main: service_control_handler::register(...)
register_handler ==
    /\ mainPc = "register"
    /\ \E ok \in BOOLEAN :
          IF ok THEN mainPc' = "report_running" /\ registered' = TRUE
                     /\ runResult' = runResult
                ELSE mainPc' = "returned" /\ registered' = registered
                     /\ runResult' = runResult
    /\ UNCHANGED <<mode, loaded, reports, stop_requested, stopWhileRunning>>
    /\ UNCHANGED <<supVars, ctlVars>>
    /\ UNCHANGED storeVars

\* Variant: an error of set_service_status(Running) is only logged.
report_running_ignoring_error ==
    /\ mainPc = "report_running"
    /\ \E ok \in BOOLEAN :
          reports' = Append(reports, ServiceStatus("Running", {"Stop"}, ok))
    /\ mainPc' = "spawn_thread"
    /\ runResult' = runResult
    /\ UNCHANGED <<mode, loaded, registered, stop_requested, stopWhileRunning>>
    /\ UNCHANGED <<supVars, ctlVars>>
    /\ UNCHANGED storeVars

\* ffi_service_main: set_service_status(Running); an error returns.
report_running ==
    /\ mainPc = "report_running"
    /\ \E ok \in BOOLEAN :
          /\ reports' = Append(reports, ServiceStatus("Running", {"Stop"}, ok))
          /\ IF ok THEN mainPc' = "spawn_thread" /\ runResult' = runResult
                   ELSE mainPc' = "returned" /\ runResult' = runResult
    /\ UNCHANGED <<mode, loaded, registered, stop_requested, stopWhileRunning>>
    /\ UNCHANGED <<supVars, ctlVars>>
    /\ UNCHANGED storeVars

\* run_debug_mode: ctrlc::set_handler(...).expect(...)
set_ctrlc_handler ==
    /\ mainPc = "set_handler"
    /\ \E ok \in BOOLEAN :
          IF ok THEN mainPc' = "spawn_thread" /\ registered' = TRUE
                     /\ runResult' = runResult
                ELSE mainPc' = "returned" /\ registered' = registered
                     /\ runResult' = "Err"
    /\ UNCHANGED <<mode, loaded, reports, stop_requested, stopWhileRunning>>
    /\ UNCHANGED <<supVars, ctlVars>>
    /\ UNCHANGED storeVars

\* std::thread::spawn(move || manage_child_process(...)), both modes.
spawn_supervisor ==
    /\ mainPc = "spawn_thread"
    /\ mainPc' = "wait_sleep"
    /\ supPc' = "check_stop"
    /\ UNCHANGED <<mode, loaded, runResult, reports, registered, stop_requested,
                   stopWhileRunning>>
    /\ UNCHANGED <<attempt, child, orphans, spawnCalls, failRun, delays, pause,
                   spawnsAfterStop, lastSpawn, stopWait, lastWait>>
    /\ UNCHANGED ctlVars
    /\ UNCHANGED storeVars

\* wait loop: thread::sleep(500ms)
wait_sleep ==
    /\ mainPc = "wait_sleep"
    /\ mainPc' = "wait_check"
    /\ UNCHANGED <<mode, loaded, runResult, reports, registered, stop_requested,
                   stopWhileRunning>>
    /\ UNCHANGED <<supVars, ctlVars>>
    /\ UNCHANGED storeVars

\* Variant: the wait loop leaves without looking at the flag.
wait_check_unconditional ==
    /\ mainPc = "wait_check"
    /\ IF mode = "service"
          THEN mainPc' = "report_stopped" /\ runResult' = runResult
          ELSE mainPc' = "returned" /\ runResult' = "Ok"
    /\ UNCHANGED <<mode, loaded, reports, registered, stop_requested, stopWhileRunning>>
    /\ UNCHANGED <<supVars, ctlVars>>
    /\ UNCHANGED storeVars

\* Variant: the wait loop leaves only once no child is running.
wait_check_child_gone ==
    /\ mainPc = "wait_check"
    /\ IF stop_requested /\ child # "running"
          THEN IF mode = "service"
                  THEN mainPc' = "report_stopped" /\ runResult' = runResult
                  ELSE mainPc' = "returned" /\ runResult' = "Ok"
          ELSE mainPc' = "wait_sleep" /\ runResult' = runResult
    /\ UNCHANGED <<mode, loaded, reports, registered, stop_requested, stopWhileRunning>>
    /\ UNCHANGED <<supVars, ctlVars>>
    /\ UNCHANGED storeVars

\* Variant: the wait loop leaves only once the supervision thread is over.
wait_check_joining ==
    /\ mainPc = "wait_check"
    /\ IF stop_requested /\ ~SupRunning
          THEN IF mode = "service"
                  THEN mainPc' = "report_stopped" /\ runResult' = runResult
                  ELSE mainPc' = "returned" /\ runResult' = "Ok"
          ELSE mainPc' = "wait_sleep" /\ runResult' = runResult
    /\ UNCHANGED <<mode, loaded, reports, registered, stop_requested, stopWhileRunning>>
    /\ UNCHANGED <<supVars, ctlVars>>
    /\ UNCHANGED storeVars

\* wait loop: lock the flag, break when it is set.
wait_check ==
    /\ mainPc = "wait_check"
    /\ IF stop_requested
          THEN IF mode = "service"
                  THEN mainPc' = "report_stopped" /\ runResult' = runResult
                  ELSE mainPc' = "returned" /\ runResult' = "Ok"
          ELSE mainPc' = "wait_sleep" /\ runResult' = runResult
    /\ UNCHANGED <<mode, loaded, reports, registered, stop_requested, stopWhileRunning>>
    /\ UNCHANGED <<supVars, ctlVars>>
    /\ UNCHANGED storeVars

\* ffi_service_main: set_service_status(Stopped); an error is only logged.
report_stopped ==
    /\ mainPc = "report_stopped"
    /\ \E ok \in BOOLEAN :
          reports' = Append(reports, ServiceStatus("Stopped", {}, ok))
    /\ mainPc' = "returned"
    /\ runResult' = "Ok"
    /\ UNCHANGED <<mode, loaded, registered, stop_requested, stopWhileRunning>>
    /\ UNCHANGED <<supVars, ctlVars>>
    /\ UNCHANGED storeVars

\* main returns after run_service: the process exits and takes the
\* supervision thread with it; children are not killed.
process_exit ==
    /\ mainPc = "returned"
    /\ mainPc' = "exited"
    /\ supPc' = IF SupRunning THEN "terminated" ELSE supPc
    /\ UNCHANGED <<mode, loaded, runResult, reports, registered, stop_requested,
                   stopWhileRunning>>
    /\ UNCHANGED <<attempt, child, orphans, spawnCalls, failRun, delays, pause,
                   spawnsAfterStop, lastSpawn, stopWait, lastWait>>
    /\ UNCHANGED ctlVars
    /\ UNCHANGED storeVars

\* --------------------------------------------------------------- handlers
\* The platform calls the registered control handler with a control code.
\* Every code is taken to be deliverable, which is more than the platform
\* does: it sends only the codes the last status announced as accepted.
deliver_control(control) ==
    /\ mode = "service"
    /\ registered
    /\ mainPc # "exited"
    /\ LET r == service_control_handler(control, stop_requested) IN
          /\ lastControl' = control
          /\ lastResult' = r[1]
          /\ stop_requested' = r[2]
          /\ stopWhileRunning' =
                IF ~stop_requested /\ r[2] THEN AliveCount > 0
                                           ELSE stopWhileRunning
    /\ UNCHANGED <<mainVars, registered, supVars>>
    /\ UNCHANGED storeVars

\* Variant: the Ctrl+C handler ends the child itself.
ctrlc_handler_killing ==
    /\ mode = "debug"
    /\ registered
    /\ mainPc # "exited"
    /\ stop_requested' = TRUE
    /\ stopWhileRunning' =
          IF ~stop_requested THEN AliveCount > 0 ELSE stopWhileRunning
    /\ child' = IF child = "running" THEN "exited" ELSE child
    /\ UNCHANGED <<supPc, attempt, orphans, spawnCalls, failRun, delays, pause,
                   spawnsAfterStop, lastSpawn, stopWait, lastWait>>
    /\ UNCHANGED <<mainVars, registered, ctlVars>>
    /\ UNCHANGED storeVars

\* The Ctrl+C handler of debug mode.
ctrlc_handler ==
    /\ mode = "debug"
    /\ registered
    /\ mainPc # "exited"
    /\ stop_requested' = TRUE
    /\ stopWhileRunning' =
          IF ~stop_requested THEN AliveCount > 0 ELSE stopWhileRunning
    /\ UNCHANGED <<mainVars, registered, supVars, ctlVars>>
    /\ UNCHANGED storeVars

\* ----------------------------------------------------- supervision thread
SupLive == SupRunning /\ mainPc # "exited"

\* Variant: the loop top does not look at the flag.
sup_check_stop_unchecked ==
    /\ SupLive
    /\ supPc = "check_stop"
    /\ supPc' = "spawn"
    /\ UNCHANGED <<attempt, child, orphans, spawnCalls, failRun, delays, pause,
                   spawnsAfterStop, lastSpawn, stopWait, lastWait>>
    /\ UNCHANGED <<mainVars, registered, stop_requested, stopWhileRunning,
                   ctlVars>>
    /\ UNCHANGED storeVars

\* manage_child_process, loop top: lock the flag; break when it is set.
sup_check_stop ==
    /\ SupLive
    /\ supPc = "check_stop"
    /\ supPc' = IF stop_requested THEN "done_stop" ELSE "spawn"
    /\ UNCHANGED <<attempt, child, orphans, spawnCalls, failRun, delays, pause,
                   spawnsAfterStop, lastSpawn, stopWait, lastWait>>
    /\ UNCHANGED <<mainVars, registered, stop_requested, stopWhileRunning,
                   ctlVars>>
    /\ UNCHANGED storeVars

\* The match on start_child_process_once(...): Ok(child) resets attempt and
\* enters the monitoring loop; Err counts the failure and gives up or backs
\* off.
sup_spawn ==
    /\ SupLive
    /\ supPc = "spawn"
    /\ spawnCalls < MaxSpawns
    /\ spawnCalls' = spawnCalls + 1
    /\ spawnsAfterStop' = spawnsAfterStop + (IF stop_requested THEN 1 ELSE 0)
    /\ pause' = <<>>
    /\ \E fault \in SpawnFaults :
          /\ fault = "stdout" => IsSome(loaded[1].stdout_path)
          /\ fault = "stderr" => IsSome(loaded[1].stderr_path)
          /\ lastSpawn' = fault
          /\ stopWait' = stopWait
          /\ lastWait' = lastWait
          /\ IF start_child_process_once(loaded[1].stdout_path,
                                         loaded[1].stderr_path, fault) = "Ok"
             THEN /\ attempt' = 0
                  /\ child' = "running"
                  /\ supPc' = "try_wait"
                  /\ failRun' = 0
                  /\ delays' = <<>>
             ELSE /\ attempt' = attempt + 1   \* u32, never above MAX_ATTEMPTS
                  /\ child' = child
                  /\ supPc' = IF give_up(attempt') THEN "done_gaveup"
                                                   ELSE "backoff"
                  /\ failRun' = failRun + 1
                  /\ delays' = delays
    /\ UNCHANGED orphans
    /\ UNCHANGED <<mainVars, registered, stop_requested, stopWhileRunning,
                   ctlVars>>
    /\ UNCHANGED storeVars

\* Variant: an observed exit `continue`s the outer loop, past its sleep.
sup_try_wait_no_cooldown ==
    /\ SupLive
    /\ supPc = "try_wait"
    /\ \E r \in {"Ok", "Err"} :
          IF r = "Ok" /\ child = "running"
             THEN /\ supPc' = "mon_check_stop"
                  /\ UNCHANGED <<child, orphans, pause>>
             ELSE /\ supPc' = "check_stop"
                  /\ orphans' = orphans + (IF child = "running" THEN 1 ELSE 0)
                  /\ child' = "none"
                  /\ pause' = <<>>
    /\ UNCHANGED <<attempt, spawnCalls, failRun, delays, spawnsAfterStop, lastSpawn, stopWait, lastWait>>
    /\ UNCHANGED <<mainVars, registered, stop_requested, stopWhileRunning,
                   ctlVars>>
    /\ UNCHANGED storeVars

\* child.try_wait(): Ok(Some(status)) when the child has exited, Ok(None)
\* while it runs, Err in either case.  Leaving the monitoring loop drops the
\* handle, which does not kill the process.
sup_try_wait ==
    /\ SupLive
    /\ supPc = "try_wait"
    /\ \E r \in {"Ok", "Err"} :
          IF r = "Ok" /\ child = "running"
             THEN /\ supPc' = "mon_check_stop"
                  /\ UNCHANGED <<child, orphans, pause>>
             ELSE /\ supPc' = "cooldown"
                  /\ orphans' = orphans + (IF child = "running" THEN 1 ELSE 0)
                  /\ child' = "none"
                  /\ pause' = <<>>
    /\ UNCHANGED <<attempt, spawnCalls, failRun, delays, spawnsAfterStop, lastSpawn, stopWait, lastWait>>
    /\ UNCHANGED <<mainVars, registered, stop_requested, stopWhileRunning,
                   ctlVars>>
    /\ UNCHANGED storeVars

\* Ok(None) arm: lock the flag; when set go on to kill, else sleep.
sup_mon_check_stop ==
    /\ SupLive
    /\ supPc = "mon_check_stop"
    /\ supPc' = IF stop_requested THEN "kill" ELSE "poll_sleep"
    /\ UNCHANGED <<attempt, child, orphans, spawnCalls, failRun, delays, pause,
                   spawnsAfterStop, lastSpawn, stopWait, lastWait>>
    /\ UNCHANGED <<mainVars, registered, stop_requested, stopWhileRunning,
                   ctlVars>>
    /\ UNCHANGED storeVars

\* thread::sleep(1s) between two polls of a running child.
sup_poll_sleep ==
    /\ SupLive
    /\ supPc = "poll_sleep"
    /\ stopWait' = stopWait + (IF stop_requested THEN POLL_SECS ELSE 0)
    /\ supPc' = "try_wait"
    /\ UNCHANGED <<attempt, child, orphans, spawnCalls, failRun, delays, pause,
                   spawnsAfterStop, lastSpawn, lastWait>>
    /\ UNCHANGED <<mainVars, registered, stop_requested, stopWhileRunning,
                   ctlVars>>
    /\ UNCHANGED storeVars

\* let _ = child.kill(): the result is discarded.
sup_kill ==
    /\ SupLive
    /\ supPc = "kill"
    /\ \E ok \in BOOLEAN : child' = IF ok THEN "exited" ELSE child
    /\ supPc' = "wait"
    /\ UNCHANGED <<attempt, orphans, spawnCalls, failRun, delays, pause,
                   spawnsAfterStop, lastSpawn, stopWait, lastWait>>
    /\ UNCHANGED <<mainVars, registered, stop_requested, stopWhileRunning,
                   ctlVars>>
    /\ UNCHANGED storeVars

\* let _ = child.wait(); return: wait blocks until the child has exited, or
\* fails; either way the function returns and the handle is dropped.
sup_wait ==
    /\ SupLive
    /\ supPc = "wait"
    /\ \E r \in {"Ok", "Err"} :
          /\ r = "Ok" => child = "exited"
          /\ orphans' = orphans + (IF child = "running" THEN 1 ELSE 0)
          /\ lastWait' = r
    /\ child' = "none"
    /\ supPc' = "done_killed"
    /\ UNCHANGED <<attempt, spawnCalls, failRun, delays, pause,
                   spawnsAfterStop, lastSpawn, stopWait>>
    /\ UNCHANGED <<mainVars, registered, stop_requested, stopWhileRunning,
                   ctlVars>>
    /\ UNCHANGED storeVars

\* Err arm: thread::sleep(delay) with the exponential backoff delay.
sup_backoff ==
    /\ SupLive
    /\ supPc = "backoff"
    /\ stopWait' = stopWait + (IF stop_requested THEN backoff_delay(attempt) ELSE 0)
    /\ delays' = Append(delays, backoff_delay(attempt))
    /\ pause' = Append(pause, backoff_delay(attempt))
    /\ supPc' = "cooldown"
    /\ UNCHANGED <<attempt, child, orphans, spawnCalls, failRun,
                   spawnsAfterStop, lastSpawn, lastWait>>
    /\ UNCHANGED <<mainVars, registered, stop_requested, stopWhileRunning,
                   ctlVars>>
    /\ UNCHANGED storeVars

\* Loop bottom: thread::sleep(1s) before the next iteration.
sup_cooldown ==
    /\ SupLive
    /\ supPc = "cooldown"
    /\ stopWait' = stopWait + (IF stop_requested THEN COOLDOWN_SECS ELSE 0)
    /\ pause' = Append(pause, COOLDOWN_SECS)
    /\ supPc' = "check_stop"
    /\ UNCHANGED <<attempt, child, orphans, spawnCalls, failRun, delays,
                   spawnsAfterStop, lastSpawn, lastWait>>
    /\ UNCHANGED <<mainVars, registered, stop_requested, stopWhileRunning,
                   ctlVars>>
    /\ UNCHANGED storeVars

\* ------------------------------------------------------------ environment
\* The supervised program ends on its own.
child_exit ==
    /\ child = "running"
    /\ child' = "exited"
    /\ UNCHANGED <<supPc, attempt, orphans, spawnCalls, failRun, delays, pause,
                   spawnsAfterStop, lastSpawn, stopWait, lastWait>>
    /\ UNCHANGED <<mainVars, registered, stop_requested, stopWhileRunning,
                   ctlVars>>
    /\ UNCHANGED storeVars

\* A child whose handle was dropped ends on its own.
orphan_exit ==
    /\ orphans > 0
    /\ orphans' = orphans - 1
    /\ UNCHANGED <<supPc, attempt, child, spawnCalls, failRun, delays, pause,
                   spawnsAfterStop, lastSpawn, stopWait, lastWait>>
    /\ UNCHANGED <<mainVars, registered, stop_requested, stopWhileRunning,
                   ctlVars>>
    /\ UNCHANGED storeVars

\* ---------------------------------------------------------- specification
manage_child_process ==
    \/ sup_check_stop
    \/ sup_spawn
    \/ sup_try_wait
    \/ sup_mon_check_stop
    \/ sup_poll_sleep
    \/ sup_kill
    \/ sup_wait
    \/ sup_backoff
    \/ sup_cooldown

Next ==
    \/ run_service
    \/ run_windows_service
    \/ register_handler
    \/ report_running
    \/ set_ctrlc_handler
    \/ spawn_supervisor
    \/ wait_sleep
    \/ wait_check
    \/ report_stopped
    \/ process_exit
    \/ \E control \in Controls : deliver_control(control)
    \/ ctrlc_handler
    \/ manage_child_process
    \/ child_exit
    \/ orphan_exit

Spec == Init /\ [][Next]_vars

\* The main thread is a running thread whose sleeps end: each of its steps
\* in and after the wait loop is eventually taken.  Nothing is assumed of
\* the supervision thread, the child or the platform.
FairSpec ==
    /\ Spec
    /\ WF_vars(spawn_supervisor)
    /\ WF_vars(wait_sleep)
    /\ WF_vars(wait_check)
    /\ WF_vars(report_stopped)

\* ======================================================= the commands
\* The commands of main.rs over the service control manager and the
\* registry.  The two are kept apart as the code keeps them: a service is
\* created and deleted through the service control manager, its Parameters
\* key is created and deleted through the registry calls.  Each platform
\* call can fail; `scmFault` and `saveFault` name the call that does.
hostVars == <<mode, mainPc, runResult, reports, registered, stop_requested,
              stopWhileRunning, supVars, ctlVars>>

\* The configurations a command line can give.
InstallConfigs ==
    { ServiceConfig(ExeA, <<>>, None, None, None),
      ServiceConfig(ExeA, << <<97>> >>, Some(<<>>), None, Some(<<101>>)),
      ServiceConfig(ExeB, << <<97, 34>>, <<92>> >>, Some(<<119>>),
                    Some(<<111>>), Some(<<101>>)),
      ServiceConfig(ExeGone, <<>>, None, None, None) }

\* The service control manager calls of each command that can fail.
InstallFaults == {"none", "OpenSCManager", "CreateService", "Description"}
UninstallFaults == {"none", "OpenSCManager", "OpenService", "DeleteService"}
StartFaults == {"none", "OpenSCManager", "OpenService", "StartService"}
StopFaults == {"none", "OpenSCManager", "OpenService", "ControlService"}
StatusFaults == {"none", "OpenSCManager", "OpenService", "QueryServiceStatus"}

\* What a command returned, the platform call that failed in it, and (for
\* restart) the steps it took.
Result(op, res, failed) ==
    [op |-> op, res |-> res, failed |-> failed, calls |-> <<>>]

\* Variant: the configuration is saved before the service is created.
install_service_saving_first(name, config, scmFault, saveFault) ==
    /\ FaultApplies(config, saveFault)
    /\ scmFault \in InstallFaults
    /\ loaded' = None
    /\ IF ~exists(config.executable_path)
          THEN /\ lastOp' = Result("install", "Err", "exists")
               /\ UNCHANGED <<scm, params, saved>>
          ELSE IF scmFault = "OpenSCManager"
          THEN /\ lastOp' = Result("install", "Err", scmFault)
               /\ UNCHANGED <<scm, params, saved>>
          ELSE IF name \in scm
          THEN /\ lastOp' = Result("install", "Err", "AlreadyExists")
               /\ params' = [params EXCEPT ![name] =
                     save_service_config(@, config, saveFault).key]
               /\ UNCHANGED <<scm, saved>>
          ELSE IF scmFault = "CreateService"
          THEN /\ lastOp' = Result("install", "Err", scmFault)
               /\ UNCHANGED <<scm, params, saved>>
          ELSE LET r == save_service_config(params[name], config, saveFault) IN
               /\ scm' = scm \cup {name}
               /\ params' = [params EXCEPT ![name] = r.key]
               /\ lastOp' = Result("install", "Ok",
                                   IF ~r.ok THEN saveFault ELSE scmFault)
               /\ saved' = Some([config |-> config, saveOk |-> r.ok,
                                existed |-> IsSome(params[name])])
    /\ UNCHANGED <<hostVars, argv, taskVars, wideVars>>

\* install (main.rs install_service, then ServiceManager::install_service):
\* the executable must exist; the service is created; a failure to set the
\* description or to save the configuration is only logged.
install_service(name, config, scmFault, saveFault) ==
    /\ FaultApplies(config, saveFault)
    /\ scmFault \in InstallFaults
    /\ loaded' = None
    /\ IF ~exists(config.executable_path)
          THEN /\ lastOp' = Result("install", "Err", "exists")
               /\ UNCHANGED <<scm, params, saved>>
          ELSE IF scmFault = "OpenSCManager"
          THEN /\ lastOp' = Result("install", "Err", scmFault)
               /\ UNCHANGED <<scm, params, saved>>
          ELSE IF name \in scm
          THEN /\ lastOp' = Result("install", "Err", "AlreadyExists")
               /\ UNCHANGED <<scm, params, saved>>
          ELSE IF scmFault = "CreateService"
          THEN /\ lastOp' = Result("install", "Err", scmFault)
               /\ UNCHANGED <<scm, params, saved>>
          ELSE LET r == save_service_config(params[name], config, saveFault) IN
               /\ scm' = scm \cup {name}
               /\ params' = [params EXCEPT ![name] = r.key]
               /\ lastOp' = Result("install", "Ok",
                                   IF ~r.ok THEN saveFault ELSE scmFault)
               /\ saved' = Some([config |-> config, saveOk |-> r.ok,
                                existed |-> IsSome(params[name])])
    /\ UNCHANGED <<hostVars, argv, taskVars, wideVars>>

\* Variant: deleting a key that is not there is an error.
delete_service_config_strict(key0, regFault) ==
    [ok |-> key0 # None, key |-> IF regFault THEN key0 ELSE None]

\* delete_service_config: RegDeleteKeyW removes the key; when it fails (no
\* such key, or `regFault`) that is logged and Ok is returned all the same.
\* [ok, key].
delete_service_config(key0, regFault) ==
    [ok |-> TRUE, key |-> IF regFault \/ key0 = None THEN key0 ELSE None]

\* uninstall: the service is opened, sent a stop (result not looked at) and
\* deleted; then the Parameters key is deleted, a failure only logged.
uninstall_service(name, scmFault, regFault) ==
    /\ scmFault \in UninstallFaults
    /\ loaded' = None
    /\ IF scmFault \in {"OpenSCManager", "OpenService"}
          THEN /\ lastOp' = Result("uninstall", "Err", scmFault)
               /\ UNCHANGED <<scm, params, saved>>
          ELSE IF name \notin scm
          THEN /\ lastOp' = Result("uninstall", "Err", "NotInstalled")
               /\ UNCHANGED <<scm, params, saved>>
          ELSE IF scmFault = "DeleteService"
          THEN /\ lastOp' = Result("uninstall", "Err", scmFault)
               /\ UNCHANGED <<scm, params, saved>>
          ELSE /\ scm' = scm \ {name}
               /\ params' = [params EXCEPT
                               ![name] = delete_service_config(@, regFault).key]
               /\ lastOp' = Result("uninstall", "Ok",
                                   IF regFault THEN "RegDeleteKey" ELSE "none")
               /\ saved' = None
    /\ UNCHANGED <<hostVars, argv, taskVars, wideVars>>

\* ServiceManager::start_service: the service is opened and StartServiceW
\* called.
start_outcome(name, scmFault) ==
    IF scmFault # "none" THEN Result("start", "Err", scmFault)
    ELSE IF name \notin scm THEN Result("start", "Err", "NotInstalled")
    ELSE Result("start", "Ok", "none")

\* ServiceManager::stop_service: the service is opened and sent the stop
\* control by stop_service_internal, which does not look at what
\* ControlService returns.
stop_outcome(name, scmFault) ==
    IF scmFault \in {"OpenSCManager", "OpenService"}
       THEN Result("stop", "Err", scmFault)
    ELSE IF name \notin scm THEN Result("stop", "Err", "NotInstalled")
    ELSE Result("stop", "Ok", scmFault)

\* start (main.rs start_service).
start_service(name, scmFault) ==
    /\ scmFault \in StartFaults
    /\ lastOp' = start_outcome(name, scmFault)
    /\ UNCHANGED <<scm, params, saved, loaded>>
    /\ UNCHANGED <<hostVars, argv, taskVars, wideVars>>

\* stop (main.rs stop_service).
stop_service(name, scmFault) ==
    /\ scmFault \in StopFaults
    /\ lastOp' = stop_outcome(name, scmFault)
    /\ UNCHANGED <<scm, params, saved, loaded>>
    /\ UNCHANGED <<hostVars, argv, taskVars, wideVars>>

\* The pause of restart, in seconds.
RESTART_PAUSE_SECS == 2

Call(call, res, secs) == [call |-> call, res |-> res, secs |-> secs]

\* Variant: start is issued whatever stop returned.
restart_service_always_start(name, stopFault, startFault) ==
    /\ stopFault \in StopFaults
    /\ startFault \in StartFaults \ {"OpenSCManager"}
    /\ IF stopFault = "OpenSCManager"
          THEN lastOp' = Result("restart", "Err", stopFault)
          ELSE LET stopped == stop_outcome(name, stopFault)
                   started == start_outcome(name, startFault)
               IN  lastOp' = [started EXCEPT
                       !.op = "restart",
                       !.calls = << Call("stop", stopped.res, 0),
                                    Call("pause", "Ok", RESTART_PAUSE_SECS),
                                    Call("start", started.res, 0) >>]
    /\ UNCHANGED <<scm, params, saved, loaded>>
    /\ UNCHANGED <<hostVars, argv, taskVars, wideVars>>

\* restart (main.rs restart_service, ServiceManager::restart_service): stop,
\* whose error returns; a sleep; start, whose error returns.
restart_service(name, stopFault, startFault) ==
    /\ stopFault \in StopFaults
    /\ startFault \in StartFaults \ {"OpenSCManager"}
    /\ IF stopFault = "OpenSCManager"
          THEN lastOp' = Result("restart", "Err", stopFault)
          ELSE LET stopped == stop_outcome(name, stopFault)
                   started == start_outcome(name, startFault)
               IN  IF stopped.res = "Err"
                      THEN lastOp' = [stopped EXCEPT
                               !.op = "restart",
                               !.calls = << Call("stop", "Err", 0) >>]
                      ELSE lastOp' = [started EXCEPT
                               !.op = "restart",
                               !.failed = IF started.res = "Err"
                                             THEN started.failed
                                             ELSE stopped.failed,
                               !.calls = << Call("stop", "Ok", 0),
                                            Call("pause", "Ok",
                                                 RESTART_PAUSE_SECS),
                                            Call("start", started.res, 0) >>]
    /\ UNCHANGED <<scm, params, saved, loaded>>
    /\ UNCHANGED <<hostVars, argv, taskVars, wideVars>>

\* status: the service is opened and QueryServiceStatus called.
get_service_status(name, scmFault) ==
    /\ scmFault \in StatusFaults
    /\ lastOp' = IF scmFault # "none" THEN Result("status", "Err", scmFault)
                 ELSE IF name \notin scm
                      THEN Result("status", "Err", "NotInstalled")
                 ELSE Result("status", "Ok", "none")
    /\ UNCHANGED <<scm, params, saved, loaded>>
    /\ UNCHANGED <<hostVars, argv, taskVars, wideVars>>

\* The host's load of the stored configuration (first step of run_service).
load_config(name, scmFault) ==
    /\ LET config == load_service_config(name, scmFault) IN
         /\ loaded' = Some(config)
         /\ lastOp' = Result("load", IF config.ok THEN "Ok" ELSE "Err",
                             IF scmFault THEN "OpenService" ELSE "none")
    /\ UNCHANGED <<scm, params, saved>>
    /\ UNCHANGED <<hostVars, argv, taskVars, wideVars>>

StoreInit ==
    /\ mode = "service"
    /\ HostInit
    /\ scm = {}
    /\ params = [n \in Names |-> None]
    /\ lastOp = NoOp
    /\ saved = None
    /\ argv = NoArgv
    /\ TaskIdle
    /\ WideIdle

StoreNext ==
    \/ \E name \in Names, config \in InstallConfigs,
          scmFault \in InstallFaults, saveFault \in SaveFaults :
            \* one failing call at a time
            /\ scmFault = "none" \/ saveFault = "none"
            /\ install_service(name, config, scmFault, saveFault)
    \/ \E name \in Names, scmFault \in UninstallFaults, regFault \in BOOLEAN :
            uninstall_service(name, scmFault, regFault)
    \/ \E name \in Names, scmFault \in StartFaults :
            start_service(name, scmFault)
    \/ \E name \in Names, scmFault \in StopFaults :
            stop_service(name, scmFault)
    \/ \E name \in Names, scmFault \in StatusFaults :
            get_service_status(name, scmFault)
    \/ \E name \in Names, stopFault \in StopFaults, startFault \in StartFaults :
            restart_service(name, stopFault, startFault)
    \/ \E name \in Names, scmFault \in BOOLEAN : load_config(name, scmFault)

StoreSpec == StoreInit /\ [][StoreNext]_vars

\* ------------------------------------------------- the install command
\* main's Install arm on one command line: the effective name and executable
\* are chosen, a missing one is an error, then install runs.
CliNames == {"svcA", "svcB"}

ArgvInputs ==
    { Argv(sn, n, se, e) :
        sn \in {None} \cup {Some(x) : x \in CliNames},
        n \in {None} \cup {Some(x) : x \in CliNames},
        se \in {None} \cup {Some(x) : x \in OnDisk},
        e \in {None} \cup {Some(x) : x \in OnDisk} }

\* Variant: the second Option wins.
option_or_second(first, second) == IF IsSome(second) THEN second ELSE first

\* Option::or
option_or(first, second) == IF IsSome(first) THEN first ELSE second

main_install ==
    /\ lastOp = NoOp
    /\ LET final_name == option_or(argv.service_name, argv.name)
           final_executable == option_or(argv.service_executable,
                                         argv.executable)
       IN  IF final_name = None \/ final_executable = None
              THEN /\ lastOp' = Result("install", "Err",
                                       IF final_name = None THEN "name"
                                                            ELSE "executable")
                   /\ UNCHANGED <<scm, params, saved, loaded, hostVars, argv,
                                taskVars, wideVars>>
              ELSE install_service(final_name[1],
                                   ServiceConfig(final_executable[1], <<>>,
                                                 None, None, None),
                                   "none", "none")

CliInit ==
    /\ mode = "service"
    /\ HostInit
    /\ scm = {}
    /\ params = [n \in CliNames |-> None]
    /\ lastOp = NoOp
    /\ saved = None
    /\ argv \in ArgvInputs
    /\ TaskIdle
    /\ WideIdle

CliNext == main_install

CliSpec == CliInit /\ [][CliNext]_vars

\* ------------------------------------------------------ ServiceHost tasks
\* ServiceHost (service_host.rs:26-337): start_service spawns a task that
\* spawns the first child and stores it, and a monitor task that polls the
\* stored child and respawns it; stop_service spawns a task that takes the
\* stored child, kills it and waits for it.  The tasks run on the runtime's
\* worker threads and share child_process behind a write lock.
\* Number of children the host's tasks spawn in one run.
MaxChildren == 3

progVars == <<hostVars, loaded, scm, params, lastOp, saved, argv>>

\* The hosts explored: no redirection, both streams redirected.
HostConfigs ==
    { NoRedirect, [stdout_path |-> Some(<<111>>), stderr_path |-> Some(<<101>>)] }

\* cmd.spawn() returned Ok: a new running child, whose id is returned.
Spawned == Append(procs, "running")

Running(c) == c \in DOMAIN procs /\ procs[c] = "running"

\* start_service: start_child_process and start_monitor_task each spawn
\* their task; both return at once and the result is Ok.
ServiceHost_start_service ==
    /\ hostPc = "new"
    /\ hostPc' = "started"
    /\ startPc' = "spawn"
    /\ monPc' = "lock"
    /\ UNCHANGED <<host, child_process, lockOwner, stopPc, procs, new_child,
                   taken, stopAfterStore, monSpawnCalls>>
    /\ UNCHANGED <<progVars, wideVars>>

\* stop_service: stop_child_process spawns its task and returns Ok.
ServiceHost_stop_service ==
    /\ hostPc = "started"
    /\ hostPc' = "stop_called"
    /\ stopPc' = "lock"
    /\ stopAfterStore' = (startPc = "done")
    /\ UNCHANGED <<host, child_process, lockOwner, startPc, monPc, procs,
                   new_child, taken, monSpawnCalls>>
    /\ UNCHANGED <<progVars, wideVars>>

\* The task of start_child_process up to cmd.spawn(): a redirect file that
\* cannot be opened is replaced by Stdio::null(); a failing spawn is logged
\* and ends the task.
start_task_spawn ==
    /\ startPc = "spawn"
    /\ Len(procs) < MaxChildren
    /\ \E fault \in SpawnFaults :
          /\ fault = "stdout" => IsSome(host.stdout_path)
          /\ fault = "stderr" => IsSome(host.stderr_path)
          /\ IF fault = "spawn"
                THEN /\ startPc' = "done"
                     /\ UNCHANGED <<procs, new_child>>
                ELSE /\ startPc' = "store"
                     /\ procs' = Spawned
                     /\ new_child' = Some(Len(Spawned))
    /\ UNCHANGED <<host, child_process, lockOwner, hostPc, monPc, stopPc,
                   taken, stopAfterStore, monSpawnCalls>>
    /\ UNCHANGED <<progVars, wideVars>>

\* `*child_process.write().await = Some(child)`: once the lock is free the
\* child is stored and the lock released.
start_task_store ==
    /\ startPc = "store"
    /\ lockOwner = "none"
    /\ child_process' = new_child
    /\ startPc' = "done"
    /\ UNCHANGED <<host, lockOwner, hostPc, monPc, stopPc, procs, new_child,
                   taken, stopAfterStore, monSpawnCalls>>
    /\ UNCHANGED <<progVars, wideVars>>

\* Variant: the monitor reads the handle without waiting for the lock.
monitor_lock_free ==
    /\ monPc = "lock"
    /\ lockOwner' = "monitor"
    /\ monPc' = "try_wait"
    /\ UNCHANGED <<host, child_process, hostPc, startPc, stopPc, procs,
                   new_child, taken, stopAfterStore, monSpawnCalls>>
    /\ UNCHANGED <<progVars, wideVars>>

\* Monitor loop: child_process.write().await
monitor_lock ==
    /\ monPc = "lock"
    /\ lockOwner = "none"
    /\ lockOwner' = "monitor"
    /\ monPc' = "try_wait"
    /\ UNCHANGED <<host, child_process, hostPc, startPc, stopPc, procs,
                   new_child, taken, stopAfterStore, monSpawnCalls>>
    /\ UNCHANGED <<progVars, wideVars>>

\* `if let Some(child)`: nothing stored ends the block.  try_wait:
\* Ok(Some(status)) clears the handle and goes on, under the lock, to the
\* restart; Ok(None) and Err end the block.  The end of the block releases
\* the lock.
monitor_try_wait ==
    /\ monPc = "try_wait"
    /\ \E r \in {"Ok", "Err"} :
          IF child_process # None /\ r = "Ok" /\ ~Running(child_process[1])
             THEN /\ child_process' = None
                  /\ monPc' = "restart_sleep"
                  /\ lockOwner' = lockOwner
             ELSE /\ child_process' = child_process
                  /\ monPc' = "sleep"
                  /\ lockOwner' = "none"
    /\ UNCHANGED <<host, hostPc, startPc, stopPc, procs, new_child, taken,
                   stopAfterStore, monSpawnCalls>>
    /\ UNCHANGED <<progVars, wideVars>>

\* tokio::time::sleep(5 s) before the restart, the lock still held.
monitor_restart_sleep ==
    /\ monPc = "restart_sleep"
    /\ monPc' = "respawn"
    /\ UNCHANGED <<host, child_process, lockOwner, hostPc, startPc, stopPc,
                   procs, new_child, taken, stopAfterStore, monSpawnCalls>>
    /\ UNCHANGED <<progVars, wideVars>>

\* The restart: a redirect file that cannot be opened panics (unwrap), which
\* ends the task and releases the lock; Ok(new_child) is stored; Err goes on
\* to the longer sleep.
monitor_respawn ==
    /\ monPc = "respawn"
    /\ Len(procs) < MaxChildren
    /\ \E fault \in SpawnFaults :
          /\ fault = "stdout" => IsSome(host.stdout_path)
          /\ fault = "stderr" => IsSome(host.stderr_path)
          /\ CASE fault \in {"stdout", "stderr"} ->
                    /\ monPc' = "panicked"
                    /\ lockOwner' = "none"
                    /\ UNCHANGED <<child_process, procs, monSpawnCalls>>
               [] fault = "spawn" ->
                    /\ monPc' = "retry_sleep"
                    /\ monSpawnCalls' = monSpawnCalls + 1
                    /\ UNCHANGED <<child_process, procs, lockOwner>>
               [] OTHER ->
                    /\ monPc' = "sleep"
                    /\ monSpawnCalls' = monSpawnCalls + 1
                    /\ procs' = Spawned
                    /\ child_process' = Some(Len(Spawned))
                    /\ lockOwner' = "none"
    /\ UNCHANGED <<host, hostPc, startPc, stopPc, new_child, taken,
                   stopAfterStore>>
    /\ UNCHANGED <<progVars, wideVars>>

\* Err arm: tokio::time::sleep(30 s), then the block ends.
monitor_retry_sleep ==
    /\ monPc = "retry_sleep"
    /\ monPc' = "sleep"
    /\ lockOwner' = "none"
    /\ UNCHANGED <<host, child_process, hostPc, startPc, stopPc, procs,
                   new_child, taken, stopAfterStore, monSpawnCalls>>
    /\ UNCHANGED <<progVars, wideVars>>

\* Loop bottom: tokio::time::sleep(5 s), then the next iteration.
monitor_sleep ==
    /\ monPc = "sleep"
    /\ monPc' = "lock"
    /\ UNCHANGED <<host, child_process, lockOwner, hostPc, startPc, stopPc,
                   procs, new_child, taken, stopAfterStore, monSpawnCalls>>
    /\ UNCHANGED <<progVars, wideVars>>

\* Stop task: child_process.write().await
stop_task_lock ==
    /\ stopPc = "lock"
    /\ lockOwner = "none"
    /\ lockOwner' = "stop"
    /\ stopPc' = "take"
    /\ UNCHANGED <<host, child_process, hostPc, startPc, monPc, procs,
                   new_child, taken, stopAfterStore, monSpawnCalls>>
    /\ UNCHANGED <<progVars, wideVars>>

\* child_guard.take(): nothing stored ends the task; a stored child is taken
\* and child.kill() called, an error of which is only logged.
stop_task_take ==
    /\ stopPc = "take"
    /\ child_process' = None
    /\ IF child_process = None
          THEN /\ stopPc' = "done"
               /\ lockOwner' = "none"
               /\ UNCHANGED <<taken, procs>>
          ELSE /\ stopPc' = "wait"
               /\ lockOwner' = lockOwner
               /\ taken' = child_process
               /\ \E ok \in BOOLEAN :
                     procs' = IF ok /\ Running(child_process[1])
                                 THEN [procs EXCEPT ![child_process[1]] = "exited"]
                                 ELSE procs
    /\ UNCHANGED <<host, hostPc, startPc, monPc, new_child, stopAfterStore,
                   monSpawnCalls>>
    /\ UNCHANGED <<progVars, wideVars>>

\* child.wait(): Ok once the child has exited, or Err; either is only
\* logged, the task ends and the lock is released.
stop_task_wait ==
    /\ stopPc = "wait"
    /\ \E r \in {"Ok", "Err"} : r = "Ok" => ~Running(taken[1])
    /\ stopPc' = "done"
    /\ lockOwner' = "none"
    /\ UNCHANGED <<host, child_process, hostPc, startPc, monPc, procs,
                   new_child, taken, stopAfterStore, monSpawnCalls>>
    /\ UNCHANGED <<progVars, wideVars>>

\* A child of the host ends on its own.
host_child_exit(c) ==
    /\ Running(c)
    /\ procs' = [procs EXCEPT ![c] = "exited"]
    /\ UNCHANGED <<host, child_process, lockOwner, hostPc, startPc, monPc,
                   stopPc, new_child, taken, stopAfterStore, monSpawnCalls>>
    /\ UNCHANGED <<progVars, wideVars>>

start_monitor_task ==
    \/ monitor_lock
    \/ monitor_try_wait
    \/ monitor_restart_sleep
    \/ monitor_respawn
    \/ monitor_retry_sleep
    \/ monitor_sleep

TaskInit ==
    /\ mode = "service"
    /\ HostInit
    /\ scm = {}
    /\ params = [n \in Names |-> None]
    /\ lastOp = NoOp
    /\ saved = None
    /\ argv = NoArgv
    /\ host \in HostConfigs
    /\ child_process = None
    /\ lockOwner = "none"
    /\ hostPc = "new"
    /\ startPc = "idle"
    /\ monPc = "idle"
    /\ stopPc = "idle"
    /\ procs = <<>>
    /\ new_child = None
    /\ taken = None
    /\ stopAfterStore = FALSE
    /\ monSpawnCalls = 0
    /\ WideIdle

TaskNext ==
    \/ ServiceHost_start_service
    \/ ServiceHost_stop_service
    \/ start_task_spawn
    \/ start_task_store
    \/ start_monitor_task
    \/ stop_task_lock
    \/ stop_task_take
    \/ stop_task_wait
    \/ \E c \in 1..MaxChildren : host_child_exit(c)

TaskSpec == TaskInit /\ [][TaskNext]_vars

\* The runtime keeps running every task that can take a step.
TaskFairSpec ==
    /\ TaskSpec
    /\ WF_vars(start_task_spawn) /\ WF_vars(start_task_store)
    /\ WF_vars(monitor_lock) /\ WF_vars(monitor_try_wait)
    /\ WF_vars(monitor_restart_sleep) /\ WF_vars(monitor_respawn)
    /\ WF_vars(monitor_retry_sleep) /\ WF_vars(monitor_sleep)
    /\ WF_vars(stop_task_lock) /\ WF_vars(stop_task_take)
    /\ WF_vars(stop_task_wait)

\* ---------------------------------------------------------- wide strings
\* to_wstring and wcslen on the strings of up to MaxWide characters over
\* NUL, a, e-acute (2 bytes), the euro sign (3 bytes) and an emoji outside
\* the basic plane (4 bytes, 2 code units).
MaxWide == 3

WideChars == {0, 97, 233, 8364, 128512}

WideInputs == UNION { [1..n -> WideChars] : n \in 0..MaxWide }

call_to_wstring ==
    /\ wide = None
    /\ wide' = Some(to_wstring(wstr))
    /\ UNCHANGED <<wstr, wlen>>
    /\ UNCHANGED <<progVars, taskVars>>

call_wcslen ==
    /\ wide # None
    /\ wlen = None
    /\ wlen' = Some(wcslen(wide[1]))
    /\ UNCHANGED <<wstr, wide>>
    /\ UNCHANGED <<progVars, taskVars>>

WideInit ==
    /\ mode = "service"
    /\ HostInit
    /\ scm = {}
    /\ params = [n \in Names |-> None]
    /\ lastOp = NoOp
    /\ saved = None
    /\ argv = NoArgv
    /\ TaskIdle
    /\ wstr \in WideInputs
    /\ wide = None
    /\ wlen = None

WideNext == call_to_wstring \/ call_wcslen

WideSpec == WideInit /\ [][WideNext]_vars

\* ================================================================ claims
Count(st) == Cardinality({i \in DOMAIN reports : reports[i].state = st})

\* The supervisor has read the stop flag as set.
SupObservedStop == supPc \in {"done_stop", "kill", "wait", "done_killed"}

\* C1: in every reachable state at most one child process spawned by
\* manage_child_process is alive, whatever spawn and try_wait return.
C1_AtMostOneChild == AliveCount <= 1

\* C2 as stated: no call of start_child_process_once begins while the stop
\* flag is true.
C2_NoSpawnAfterFlagSet == spawnsAfterStop = 0

\* C2 amended: after the stop flag is set at most one spawn is attempted (the
\* one whose loop-top check had already read the flag as unset), and once the
\* supervisor has observed the flag set no spawn is attempted at all.
C2_NoSpawnAfterObservedStop ==
    /\ [](spawnsAfterStop <= 1)
    /\ [][SupObservedStop => spawnCalls' = spawnCalls]_vars

C2_Witness == spawnsAfterStop = 1 /\ supPc = "done_stop"

\* C3: the stop flag starts false and is write-once: every write sets it to
\* true and no step of any thread or handler clears it, in both modes.
C3_StopFlagWriteOnce ==
    /\ ~stop_requested
    /\ [][stop_requested => stop_requested']_vars

C3_Witness ==
    /\ stop_requested
    /\ lastControl = "Interrogate"
    /\ supPc = "done_killed"
    /\ mainPc = "exited"

\* C4: there are never more than 5 consecutive failed spawn attempts, and
\* once 5 consecutive attempts have failed no further spawn is attempted.
C4_NeverSixthSpawn ==
    /\ [](failRun <= 5)
    /\ [][failRun = 5 => spawnCalls' = spawnCalls]_vars

C4_Witness == failRun = 5 /\ supPc = "done_gaveup" /\ mainPc = "wait_check"

\* C5 as stated: the backoff delays of a run of consecutive failures are
\* INITIAL_DELAY * 1, 2, 4, 8, ..., the multiplier capped at 2^8.
C5_DelaysStartAtInitialDelay ==
    \A i \in DOMAIN delays : delays[i] = INITIAL_DELAY * Pow2(Min(i - 1, 8))

\* C5 amended: the delay after the first failure is INITIAL_DELAY * 2, each
\* later delay doubles the previous one, and no multiplier exceeds 2^8.
C5_DelaysDoubleFromTwoTimesInitial ==
    /\ Len(delays) >= 1 => delays[1] = INITIAL_DELAY * 2
    /\ \A i \in DOMAIN delays : i > 1 => delays[i] = 2 * delays[i - 1]
    /\ \A i \in DOMAIN delays : delays[i] <= INITIAL_DELAY * Pow2(8)

C5_Witness == Len(delays) = 4 /\ supPc = "spawn"

\* C6: after a failure the counter is incremented first; at 5 the supervisor
\* gives up without sleeping, otherwise it sleeps
\* INITIAL_DELAY * 2^min(attempt, 8) with the incremented counter, so the
\* delays before retries 2..5 are INITIAL_DELAY * 2, 4, 8, 16 and nothing
\* larger is slept.
C6_BackoffAfterIncrement ==
    LET expected == <<INITIAL_DELAY * 2, INITIAL_DELAY * 4,
                      INITIAL_DELAY * 8, INITIAL_DELAY * 16>>
    IN  /\ Len(delays) <= 4
        /\ delays = SubSeq(expected, 1, Len(delays))
        /\ supPc = "backoff" =>
              /\ attempt = failRun
              /\ attempt < 5
              /\ Len(delays) = failRun - 1
        /\ supPc = "done_gaveup" => attempt = 5 /\ Len(delays) = 4
        /\ \A i \in DOMAIN pause : pause[i] <= INITIAL_DELAY * 16

C6_Witness ==
    /\ supPc = "done_gaveup"
    /\ delays = <<4, 8, 16, 32>>

\* C7: in service mode Running is reported exactly once and before the wait
\* loop starts; Stopped is reported exactly once and only after the wait loop
\* has observed the stop flag; Stopped is never reported while the flag is
\* unset and never before Running.
C7_RunningThenStopped ==
    /\ Count("Running") <= 1
    /\ Count("Stopped") <= 1
    /\ mode = "debug" => reports = <<>>
    /\ (mode = "service" /\ mainPc \in {"spawn_thread", "wait_sleep",
                                         "wait_check", "report_stopped"})
          => reports = <<ServiceStatus("Running", {"Stop"}, TRUE)>>
    /\ Count("Stopped") = 1 =>
          /\ stop_requested
          /\ Len(reports) = 2
          /\ reports[1] = ServiceStatus("Running", {"Stop"}, TRUE)
          /\ reports[2].state = "Stopped"
    /\ (mode = "service" /\ supPc # "not_started"
          /\ mainPc \in {"returned", "exited"})
          => Count("Stopped") = 1

C7_Witness ==
    /\ mode = "service"
    /\ mainPc = "returned"
    /\ Len(reports) = 2
    /\ reports[2] = ServiceStatus("Stopped", {}, TRUE)

\* C8: when a stop request arrives while the child is running, the child is
\* no longer running by the time the host's run ends, in every interleaving
\* of the wait loop and the supervision thread.
C8_ChildGoneWhenRunEnds ==
    (stopWhileRunning /\ mainPc \in {"returned", "exited"}) => AliveCount = 0

\* C9: after a spawned child's exit is observed with the stop flag unset the
\* supervisor sleeps exactly the fixed cool-down and then spawns again, the
\* attempt counter being 0 all the while; when the loop-top check reads the
\* flag as set it returns without a respawn.
C9_RespawnAfterCooldown ==
    /\ []((failRun = 0) => (attempt = 0))
    /\ [][/\ (spawnCalls' = spawnCalls + 1 /\ spawnCalls >= 1 /\ failRun = 0)
             => (pause = <<COOLDOWN_SECS>> /\ attempt = 0)
          /\ (supPc = "cooldown" /\ supPc' # supPc)
             => supPc' \in {"check_stop", "terminated"}
          /\ (supPc = "check_stop" /\ supPc' # supPc /\ ~stop_requested)
             => supPc' = "spawn"
          /\ (supPc = "check_stop" /\ supPc' # supPc /\ stop_requested)
             => (supPc' \in {"done_stop", "terminated"}
                 /\ spawnCalls' = spawnCalls)
          /\ supPc = "done_stop" => spawnCalls' = spawnCalls
         ]_vars

C9_Witness ==
    /\ spawnCalls = 3
    /\ failRun = 0
    /\ child = "running"
    /\ orphans = 0
    /\ ~stop_requested

C11_WaitLoopIgnoresChild ==
    [][(mainPc = "wait_check" /\ stop_requested /\ mainPc' # mainPc)
         => mainPc' = IF mode = "service" THEN "report_stopped"
                                          ELSE "returned"]_vars

\* Stopped has been reported while the child is still running.
C11_Witness ==
    /\ Count("Stopped") = 1
    /\ child = "running"

C15_GiveUpEndsRunWithError ==
    (supPc = "done_gaveup" /\ ~stop_requested)
      ~> \/ mainPc \in {"returned", "exited"} /\ runResult = "Err"
         \/ stop_requested

\* C16: a spawn attempt whose redirect file cannot be opened still starts
\* the child and does not count as a failed attempt.
C16_RedirectFailureNotCounted ==
    [][(spawnCalls' = spawnCalls + 1 /\ lastSpawn' \in {"stdout", "stderr"})
         => (child' = "running" /\ attempt' = attempt
             /\ supPc' = "try_wait")]_vars

\* C14: when the service is unknown, its record is missing or lacks the
\* executable, or the executable does not exist, run has returned an error
\* as soon as it has loaded the configuration: no mode was entered, nothing
\* was registered or reported, no thread and no child were started.
StoreLacksExecutable ==
    \/ RunName \notin scm
    \/ params[RunName] = None
    \/ read_reg_string(params[RunName][1], "TargetExecutable") = None
    \/ read_reg_string(params[RunName][1], "TargetExecutable")[1] \notin OnDisk

C14_RunFailsWithoutExecutable ==
    (StoreLacksExecutable /\ mainPc # "select_mode")
      => /\ mainPc \in {"returned", "exited"}
         /\ runResult = "Err"
         /\ ~registered
         /\ reports = <<>>
         /\ supPc = "not_started"
         /\ spawnCalls = 0
         /\ child = "none"

\* run has returned an error for a record that lacks TargetExecutable.
C14_Witness ==
    /\ RunName \in scm
    /\ params[RunName] # None
    /\ read_reg_string(params[RunName][1], "TargetExecutable") = None
    /\ mainPc = "returned"
    /\ runResult = "Err"

\* The record of RunName holds the values `config` is saved as.
LoadedAs(l, config) ==
    /\ l.ok
    /\ l.executable_path = config.executable_path
    /\ l.arguments = config.arguments

\* C13: a load that follows a successful save returns the executable path,
\* the arguments and the three optional fields that were saved, an absent
\* field as absent.
C13_SaveLoadRoundTrip ==
    (/\ saved # None
     /\ saved[1].saveOk
     /\ lastOp = Result("load", "Ok", "none"))
      => /\ LoadedAs(loaded[1], saved[1].config)
         /\ loaded[1].working_directory = saved[1].config.working_directory
         /\ loaded[1].stdout_path = saved[1].config.stdout_path
         /\ loaded[1].stderr_path = saved[1].config.stderr_path

\* C17: when saving WorkingDirectory, StdoutPath or StderrPath fails, install
\* still returns success and TargetExecutable and Arguments are written.
C17_SecondaryFailureNonFatal ==
    (lastOp.op = "install"
       /\ lastOp.failed \in {"WorkingDirectory", "StdoutPath", "StderrPath"})
      => /\ lastOp.res = "Ok"
         /\ params[RunName] # None
         /\ params[RunName][1]["TargetExecutable"]
              = Some(to_wstring(saved[1].config.executable_path))
         /\ saved[1].config.arguments # <<>>
              => params[RunName][1]["Arguments"]
                   = Some(to_wstring(to_json(saved[1].config.arguments)))

\* C18: while the service of a successful install is installed, the store
\* holds a record for it, and a load returns the installed executable path
\* and arguments.
C18_InstallLeavesLoadableRecord ==
    saved # None
      => /\ params[RunName] # None
         /\ lastOp = Result("load", "Ok", "none")
              => LoadedAs(loaded[1], saved[1].config)

\* C19: install, uninstall, start, stop and status return an error when the
\* service control manager call they rest on fails.
C19_PlatformFailureIsError ==
    (lastOp.op \in {"install", "uninstall", "start", "stop", "status"}
       /\ lastOp.failed \in {"OpenSCManager", "OpenService", "CreateService",
                             "DeleteService", "StartService",
                             "ControlService", "QueryServiceStatus"})
      => lastOp.res = "Err"

\* C20: after uninstall has returned success the store holds no record for
\* the name.
C20_UninstallRemovesRecord ==
    (lastOp.op = "uninstall" /\ lastOp.res = "Ok") => params[RunName] = None

\* C21: deleting the record of a name that has none returns success and
\* leaves the store as it is, and a second delete gives what the first gave.
C21_DeleteToleratesAbsent ==
    \A name \in DOMAIN params, regFault \in BOOLEAN :
        LET once == delete_service_config(params[name], regFault)
            twice == delete_service_config(once.key, regFault)
        IN  /\ params[name] = None => (once.ok /\ once.key = None)
            /\ twice = once
            /\ once.key = None
                 => \A f \in BOOLEAN :
                       delete_service_config(once.key, f) = [ok |-> TRUE,
                                                             key |-> None]

\* An uninstall has returned success for a service that had no record.
C21_Witness ==
    /\ lastOp = Result("uninstall", "Ok", "none")
    /\ params[RunName] = None
    /\ scm = {}

\* C22: an install of a name that is already registered returns an error,
\* AlreadyExists once the executable was found and the service control
\* manager opened, and changes neither the registration nor the record.
C22_InstallExistingUnchanged ==
    [][(lastOp'.op = "install" /\ scm # {})
         => /\ lastOp'.res = "Err"
            /\ lastOp'.failed \in {"AlreadyExists", "exists", "OpenSCManager"}
            /\ scm' = scm
            /\ params' = params]_vars

\* An install was refused as AlreadyExists with the record still there.
C22_Witness ==
    /\ lastOp = Result("install", "Err", "AlreadyExists")
    /\ RunName \in scm
    /\ params[RunName] # None

\* C26: restart takes its steps in the order stop, pause, start; the pause
\* and the start follow only a stop that returned success; restart returns
\* success exactly when both stop and start did.
C26_RestartStopPauseStart ==
    lastOp.op = "restart"
      => LET c == lastOp.calls
             order == <<"stop", "pause", "start">>
         IN  /\ Len(c) <= 3
             /\ \A i \in DOMAIN c : c[i].call = order[i]
             /\ Len(c) >= 2 => /\ Len(c) = 3
                               /\ c[1].res = "Ok"
                               /\ c[2].secs = RESTART_PAUSE_SECS
             /\ lastOp.res = "Ok"
                  <=> (Len(c) = 3 /\ c[1].res = "Ok" /\ c[3].res = "Ok")

\* A restart has failed in its start step, after the stop and the pause.
C26_Witness ==
    /\ lastOp.op = "restart"
    /\ lastOp.res = "Err"
    /\ Len(lastOp.calls) = 3
    /\ lastOp.failed = "StartService"

\* C27: the effective name of an install is the positional name if given,
\* else --name, and likewise the executable; with both the install succeeds
\* for that name and executable, and without one of them it returns an error
\* and creates nothing.
C27_PositionalOverridesFlag ==
    lastOp.op = "install"
      => LET n == IF argv.service_name # None THEN argv.service_name
                                              ELSE argv.name
             e == IF argv.service_executable # None
                     THEN argv.service_executable ELSE argv.executable
         IN  IF n = None \/ e = None
                THEN /\ lastOp.res = "Err"
                     /\ scm = {}
                     /\ \A k \in DOMAIN params : params[k] = None
                ELSE /\ lastOp.res = "Ok"
                     /\ scm = {n[1]}
                     /\ \A k \in DOMAIN params : k # n[1] => params[k] = None
                     /\ params[n[1]] # None
                     /\ read_reg_string(params[n[1]][1], "TargetExecutable") = e

\* An install given both a positional and a flag, for the name and for the
\* executable, has installed the positional ones.
C27_Witness ==
    /\ argv = Argv(Some("svcB"), Some("svcA"), Some(ExeB), Some(ExeA))
    /\ lastOp = Result("install", "Ok", "none")
    /\ scm = {"svcB"}

\* C25: in service mode the supervision thread is started, and a spawn
\* attempted, only after Running was reported as the first status, whatever
\* becomes of the child.
C25_RunningBeforeSupervision ==
    (mode = "service"
       /\ (mainPc = "spawn_thread" \/ supPc # "not_started" \/ spawnCalls > 0))
      => /\ registered
         /\ reports # <<>>
         /\ reports[1] = ServiceStatus("Running", {"Stop"}, TRUE)

\* Running was reported and every spawn attempt has failed.
C25_Witness ==
    /\ mode = "service"
    /\ Count("Running") = 1
    /\ supPc = "done_gaveup"
    /\ spawnCalls = MAX_ATTEMPTS
    /\ child = "none"
    /\ orphans = 0

\* C28: the attempt counter is in 0..5, it is 0 whenever a child is alive,
\* and a spawn is attempted only while it is below 5.
C28_AttemptCounter ==
    /\ attempt \in 0..MAX_ATTEMPTS
    /\ AliveCount > 0 => attempt = 0
    /\ supPc = "spawn" => attempt < MAX_ATTEMPTS

\* C29: a service entry point that got past the registration step without
\* a registered handler, or whose Running report failed, has returned, and
\* no thread was started, no child spawned and no Stopped reported.
C29_FatalRegistrationFailure ==
    (mode = "service"
       /\ mainPc \notin {"select_mode", "dispatch", "register"}
       /\ (~registered \/ (reports # <<>> /\ ~reports[1].ok)))
      => /\ mainPc \in {"returned", "exited"}
         /\ supPc = "not_started"
         /\ spawnCalls = 0
         /\ child = "none"
         /\ Count("Stopped") = 0

\* The entry point has returned after a failed Running report.
C29_Witness ==
    /\ mode = "service"
    /\ registered
    /\ reports = << ServiceStatus("Running", {"Stop"}, FALSE) >>
    /\ mainPc = "exited"

\* C30: when the Arguments value of the record is not an encoded array of
\* strings, load reports an error and run returns it.
C30_CorruptArgumentsRejected ==
    (/\ loaded # None
     /\ RunName \in scm
     /\ params[RunName] # None
     /\ read_reg_string(params[RunName][1], "Arguments") # None
     /\ from_json(read_reg_string(params[RunName][1], "Arguments")[1]) = None)
      => /\ ~loaded[1].ok
         /\ mainPc \in {"returned", "exited"}
         /\ runResult = "Err"

\* C23: from the setting of the flag to the supervisor's reading it as set,
\* the supervisor sleeps at most one poll interval.
C23_StopObservedWithinOnePoll == stopWait <= POLL_SECS

\* C24: in both modes the thread start, the wait loop, the flag and the
\* supervisor follow one rule that does not look at the mode: the thread is
\* started once and then the loop sleeps and checks; the loop is left exactly
\* when it reads the flag as set; setting the flag touches nothing else of
\* the supervision; the supervisor's state is changed only by
\* manage_child_process, the child, the thread's start and the process exit;
\* and while the loop runs the flag can be set, by the control handler in
\* service mode and by the Ctrl+C handler in debug mode.
LoopPcs == {"spawn_thread", "wait_sleep", "wait_check"}

C24_SameSupervisionInBothModes ==
    [][/\ (mainPc = "spawn_thread" /\ mainPc' # mainPc)
            => /\ mainPc' = "wait_sleep"
               /\ supPc = "not_started" /\ supPc' = "check_stop"
               /\ stop_requested' = stop_requested
       /\ (mainPc = "wait_sleep" /\ mainPc' # mainPc)
            => (mainPc' = "wait_check" /\ UNCHANGED <<supVars, stop_requested>>)
       /\ (mainPc = "wait_check" /\ mainPc' # mainPc)
            => /\ mainPc' = "wait_sleep" <=> ~stop_requested
               /\ mainPc' \notin LoopPcs <=> stop_requested
               /\ UNCHANGED <<supVars, stop_requested>>
       /\ stop_requested' # stop_requested
            => (stop_requested' /\ UNCHANGED <<supVars, mainPc>>)
       /\ supVars' # supVars
            => \/ manage_child_process \/ child_exit \/ orphan_exit
               \/ mainPc = "spawn_thread" /\ mainPc' = "wait_sleep"
               \/ /\ mainPc = "returned" /\ mainPc' = "exited"
                  /\ supPc' = IF SupRunning THEN "terminated" ELSE supPc
       /\ mainPc \in LoopPcs
            => ENABLED (IF mode = "service" THEN deliver_control("Stop")
                                            ELSE ctrlc_handler)]_vars

\* A debug-mode run has left its wait loop after Ctrl+C and its supervisor
\* has killed the child, with no status reported.
C24_Witness ==
    /\ mode = "debug"
    /\ stop_requested
    /\ mainPc = "returned"
    /\ supPc = "done_killed"
    /\ spawnCalls > 0
    /\ reports = <<>>

\* The monitor's positions inside its `child_process.write().await` block.
MonitorLocked == {"try_wait", "restart_sleep", "respawn", "retry_sleep"}

\* C31: the monitor's exit-poll-then-replace and the stop task's
\* take-then-kill exclude each other; when the start task had ended before
\* stop_service was called, then once the stop task has ended no child is
\* stored, the only child that can still run is the one the stop task took
\* and called kill on, and the monitor calls spawn no more.
C31_StopAtomicWithRestart ==
    /\ [](lockOwner = "stop" => monPc \notin MonitorLocked)
    /\ []((stopAfterStore /\ stopPc = "done")
             => /\ child_process = None
                /\ \A c \in DOMAIN procs : Running(c) => taken = Some(c))
    /\ [][(stopAfterStore /\ stopPc = "done")
             => (monSpawnCalls' = monSpawnCalls /\ Len(procs') = Len(procs))
         ]_vars

C31_Witness ==
    /\ stopAfterStore
    /\ stopPc = "done"
    /\ monSpawnCalls = 1
    /\ taken = Some(2)
    /\ ~Running(2)
    /\ monPc \in {"lock", "sleep"}

\* C32: after a failed respawn (the monitor is in its longer sleep) a later
\* iteration of the monitor calls spawn again, unless stop_service is called
\* first.
C32_RespawnRetried ==
    (monPc = "retry_sleep" /\ hostPc = "started")
       ~> (monPc = "respawn" \/ hostPc = "stop_called")

\* C33: once stop_service has been called after start_service and the start
\* and stop tasks have both ended, no child of the host is running (but for
\* a child the stop task took and whose kill and wait both failed).
C33_NoChildAfterStartAndStop ==
    (hostPc = "stop_called" /\ startPc = "done" /\ stopPc = "done")
       => \A c \in DOMAIN procs : Running(c) => taken = Some(c)

\* C34: a load that follows a successful save onto a Parameters key that
\* was already there returns exactly the saved config: an absent optional
\* field as absent, an empty argument list as empty.
C34_SaveDeterminesRecord ==
    (/\ saved # None
     /\ saved[1].saveOk
     /\ saved[1].existed
     /\ lastOp = Result("load", "Ok", "none"))
      => /\ loaded[1].executable_path = saved[1].config.executable_path
         /\ loaded[1].arguments = saved[1].config.arguments
         /\ loaded[1].working_directory = saved[1].config.working_directory
         /\ loaded[1].stdout_path = saved[1].config.stdout_path
         /\ loaded[1].stderr_path = saved[1].config.stderr_path

\* The control codes on which the handler sets the stop flag.
StopControls == {c \in Controls : service_control_handler(c, FALSE)[2]}

\* C35: every control code on which the handler sets the stop flag is among
\* the controls announced as accepted with the Running status, and no
\* control is announced as accepted with the Stopped status.
C35_StopControlsAccepted ==
    \A i \in DOMAIN reports :
        /\ reports[i].state = "Running"
              => StopControls \subseteq reports[i].controls_accepted
        /\ reports[i].state = "Stopped"
              => reports[i].controls_accepted = {}

\* manage_child_process has returned.
SupReturned == supPc \in {"done_stop", "done_killed", "done_gaveup"}

\* C36: when manage_child_process has returned with the stop flag set, and
\* its child.wait() (if it came to one) returned Ok, no child it spawned is
\* alive.
C36_StopLeavesNoChild ==
    (stop_requested /\ SupReturned /\ lastWait # "Err") => AliveCount = 0

\* char::len_utf16 summed over the string.
RECURSIVE Utf16Units(_)
Utf16Units(str) ==
    IF str = <<>> THEN 0
    ELSE (IF str[1] < 65536 THEN 1 ELSE 2) + Utf16Units(Tail(str))

IsAscii(str) == \A i \in DOMAIN str : str[i] < 128

NoNul(str) == \A i \in DOMAIN str : str[i] # 0

\* C37 as stated, for every string: to_wstring(s) ends with 0 and has length
\* len(s) + 1, and wcslen of it is len(s).
C37_WideLengthOfEveryString ==
    /\ wide # None
          => /\ wide[1][Len(wide[1])] = 0
             /\ Len(wide[1]) = str_len(wstr) + 1
    /\ wlen # None => wlen[1] = str_len(wstr)

\* C37, amended: to_wstring(s) ends with 0 and has one unit more than s has
\* UTF-16 code units, which is len(s) + 1 for an ASCII string; wcslen of it
\* is the number of code units of s when s holds no NUL, which is len(s)
\* for an ASCII string without NUL.
C37_WideLength ==
    /\ wide # None
          => /\ wide[1][Len(wide[1])] = 0
             /\ Len(wide[1]) = Utf16Units(wstr) + 1
             /\ IsAscii(wstr) => Len(wide[1]) = str_len(wstr) + 1
    /\ (wlen # None /\ NoNul(wstr))
          => /\ wlen[1] = Utf16Units(wstr)
             /\ IsAscii(wstr) => wlen[1] = str_len(wstr)

C37_Witness ==
    /\ wstr = <<97, 97, 97>>
    /\ wide = Some(<<97, 97, 97, 0>>)
    /\ wlen = Some(3)

====
